---- MODULE Spec2Model ----
(***************************************************************************)
(* A model of django-eventtools (src/eventtools/models.py): expansion of   *)
(* an occurrence record into its occurrences, the approximate and exact    *)
(* range filters, the merge of per-record occurrence generators and the    *)
(* next/first/sort_by_next helpers.                                        *)
(*                                                                         *)
(* Time is discrete.  A day has TicksPerDay ticks; tick 0 of a day is      *)
(* 00:00:00 and tick TicksPerDay - 1 is 23:59:59.  A naive datetime holds  *)
(* the local wall-clock tick, an aware datetime holds the UTC tick, and    *)
(* the default time zone is TzOffset ticks ahead of UTC.                   *)
(***************************************************************************)
EXTENDS Integers, Sequences, FiniteSets, TLC

VARIABLES
    USE_TZ,      \* settings.USE_TZ
    clock,       \* the wall clock read by datetime.now() (local tick)
    obj,         \* the BaseOccurrence whose all_occurrences generator runs
    from_date,   \* argument from_date of the running call
    to_date,     \* argument to_date of the running call
    limit,       \* argument limit of the running call
    gen_pc,      \* position of the all_occurrences generator
    delta,       \* local delta of all_occurrences
    repeater,    \* local repeater of all_occurrences (result of between)
    pulled,      \* number of repeat instants the for loop has taken
    count,       \* local count of all_occurrences
    yielded,     \* the occurrences the generator has yielded so far
    inputs,      \* combine_occurrences: the input generators, as their items
    merge_limit, \* combine_occurrences: argument limit
    m_pc,        \* position of the combine_occurrences generator
    m_pulled,    \* items taken so far from each input generator
    m_emitted,   \* items of each input that heapq.merge has yielded
    m_last,      \* the input whose item heapq.merge yielded last (0: none)
    m_i,         \* items taken so far from merged (enumerate's next index)
    m_out,       \* the items combine_occurrences has yielded so far
    qs,          \* the queryset: the stored records, in iteration order
    call,        \* the running or returned queryset call and its arguments
    q_pc,        \* position of that call
    approx_qs,   \* filter_invalid: argument approx_qs
    fi_from_date,      \* filter_invalid: argument from_date
    fi_to_date,        \* filter_invalid: argument to_date
    progress_callback, \* filter_invalid: TRUE iff a progress_callback is given
    total,       \* filter_invalid: local total
    fi_i,        \* filter_invalid: enumerate's i of the last record traversed
    exclude_pks, \* filter_invalid: local exclude_pks
    progress,    \* the (i, total) pairs passed to progress_callback so far
    evaluated,   \* the pks of the records whose next_occurrence was evaluated
    kept,        \* sort_by_next: the list built by the comprehension
    result       \* what the call returned

expand_vars == <<obj, from_date, to_date, limit, gen_pc, delta, repeater,
                 pulled, count, yielded>>

merge_vars == <<inputs, merge_limit, m_pc, m_pulled, m_emitted, m_last, m_i,
                m_out>>

filter_vars == <<approx_qs, fi_from_date, fi_to_date, progress_callback, total,
                 fi_i, exclude_pks, progress, evaluated>>

query_vars == <<qs, call, q_pc, filter_vars, kept, result>>

vars == <<USE_TZ, clock, expand_vars, merge_vars, query_vars>>

----------------------------------------------------------------------------
(* Bounds of the model *)

MaxDay == 2          \* dates are days 0..MaxDay
MaxStart == 3        \* a record starts at local tick 0..MaxStart
MaxDur == 1          \* end - start is in -1..MaxDur, or end is absent
MaxLimit == 2        \* explicit limits are 0..MaxLimit
MaxInputs == 2       \* combine_occurrences merges 1..MaxInputs generators
MaxSeqLen == 2       \* each of them yields 0..MaxSeqLen items
MaxKey == 1          \* whose starts are ticks 0..MaxKey
MaxRecords == 2      \* a queryset holds 1..MaxRecords records
MaxClock == 2        \* datetime.now() is local tick 0..MaxClock
QMaxStart == 1       \* each starting at local tick 0..QMaxStart

(* Granularity of the model's time *)

TicksPerDay == 2
TzOffset == 1

REPEAT_MAX == 200

----------------------------------------------------------------------------
(* Values: None, date, datetime *)

None == [kind |-> "none", t |-> 0, aware |-> FALSE]
Date(d) == [kind |-> "date", t |-> d, aware |-> FALSE]
Naive(t) == [kind |-> "datetime", t |-> t, aware |-> FALSE]
Aware(t) == [kind |-> "datetime", t |-> t, aware |-> TRUE]

Truthy(v) == v.kind # "none"

Max(a, b) == IF a >= b THEN a ELSE b
Min(a, b) == IF a <= b THEN a ELSE b

is_aware(dt) == dt.aware
is_naive(dt) == ~dt.aware
make_aware(dt) == Aware(dt.t - TzOffset)
make_naive(dt) == Naive(dt.t + TzOffset)

default_aware(dt) == IF USE_TZ /\ is_naive(dt) THEN make_aware(dt) ELSE dt

default_naive(dt) == IF USE_TZ /\ is_aware(dt) THEN make_naive(dt) ELSE dt

as_datetime(d, end) ==
    IF d.kind = "date"
    THEN default_aware(Naive(d.t * TicksPerDay + (IF end THEN TicksPerDay - 1 ELSE 0)))
    ELSE default_aware(d)

FutureDay == MaxDay + 2
max_future_date == Naive(FutureDay * TicksPerDay)

(* datetime +/- timedelta *)
Shift(dt, d) == [dt EXCEPT !.t = dt.t + d]

(* A stored DateTimeField value: aware when USE_TZ, naive otherwise *)
Stored(tick) == default_aware(Naive(tick))

----------------------------------------------------------------------------
(* The rule engine: dateutil's rruleset for a repeat string *)

DAILY == "RRULE:FREQ=DAILY"
EVERY2 == "RRULE:FREQ=DAILY;INTERVAL=2"
Rules == {DAILY, EVERY2}

RuleInterval(repeat) == IF repeat = DAILY THEN TicksPerDay ELSE 2 * TicksPerDay

(* get_repeater().between(after, before, inc=True): the instants
   dtstart + k * interval, k >= 0, inside [after, before], ascending *)
between(rec, after, before) ==
    LET dtstart == default_naive(rec.start).t
        iv == RuleInterval(rec.repeat)
        n == IF before.t < dtstart THEN 0 ELSE (before.t - dtstart) \div iv + 1
        k0 == IF after.t <= dtstart THEN 0 ELSE (after.t - dtstart + iv - 1) \div iv
    IN IF n <= k0 THEN <<>>
       ELSE [i \in 1..(n - k0) |-> Naive(dtstart + (k0 + i - 1) * iv)]

----------------------------------------------------------------------------
(* BaseOccurrence.all_occurrences *)

OccurrenceTuple(start, end, instance) ==
    [start |-> start, end |-> end, instance |-> instance]

SingleInRange_StrictTo(rec, fd, td) ==
    /\ \/ ~Truthy(fd)
       \/ rec.start.t >= fd.t
       \/ (Truthy(rec.end) /\ rec.end.t >= fd.t)
    /\ (~Truthy(td) \/ rec.start.t < td.t)

(* lines 533-534 *)
NormFrom(from_arg) ==
    IF Truthy(from_arg) THEN as_datetime(from_arg, FALSE) ELSE from_arg
NormTo(to_arg) ==
    IF Truthy(to_arg) THEN as_datetime(to_arg, TRUE) ELSE to_arg

(* lines 537-539: the test of a record without repeat *)
SingleInRange(rec, fd, td) ==
    /\ \/ ~Truthy(fd)
       \/ rec.start.t >= fd.t
       \/ (Truthy(rec.end) /\ rec.end.t >= fd.t)
    /\ (~Truthy(td) \/ rec.start.t <= td.t)

(* line 542 *)
Delta(rec) == IF Truthy(rec.end) THEN rec.end.t - rec.start.t ELSE 0

(* lines 546-547 *)
LowerBound(rec, fd) ==
    IF ~Truthy(fd) \/ fd.t < rec.start.t THEN rec.start ELSE fd

UpperBound_NoUntil(rec, td) ==
    IF ~Truthy(td) THEN default_aware(max_future_date) ELSE td

(* lines 550-555 *)
UpperBound(rec, td) ==
    IF Truthy(rec.repeat_until) /\
       (~Truthy(td) \/ as_datetime(rec.repeat_until, TRUE).t < td.t)
    THEN as_datetime(rec.repeat_until, TRUE)
    ELSE IF ~Truthy(td) THEN default_aware(max_future_date) ELSE td

Repeater_NoShift(rec, fd, td) ==
    between(rec,
            default_naive(LowerBound(rec, fd)),
            default_naive(UpperBound(rec, td)))

(* lines 559-563 *)
Repeater(rec, fd, td) ==
    between(rec,
            default_naive(Shift(LowerBound(rec, fd), -Delta(rec))),
            default_naive(UpperBound(rec, td)))

LimitReached_OffByOne(cnt, lim) == cnt > lim + 1

(* line 568 *)
LimitReached(cnt, lim) == cnt > lim

(* line 572-573 *)
RepeatOccurrence(rec, occ_start) ==
    OccurrenceTuple(default_aware(occ_start),
                    Shift(default_aware(occ_start), Delta(rec)),
                    rec.pk)

(* One turn of the for loop at lines 566-573, from the generator's state
   to its next yield or its return *)
LoopTurn(rep, idx, cnt) ==
    IF idx >= Len(rep)
    THEN /\ gen_pc' = "done"
         /\ UNCHANGED <<pulled, count, yielded>>
    ELSE /\ pulled' = idx + 1
         /\ count' = cnt + 1
         /\ IF LimitReached(cnt + 1, limit)
            THEN /\ gen_pc' = "done"
                 /\ UNCHANGED yielded
            ELSE /\ gen_pc' = "loop"
                 /\ yielded' = Append(yielded, RepeatOccurrence(obj, rep[idx + 1]))

(* The first next() on the generator: lines 530-566 *)
ExpandStart ==
    /\ gen_pc = "created"
    /\ LET fd == NormFrom(from_date)
           td == NormTo(to_date)
       IN IF obj.repeat = ""
          THEN /\ IF SingleInRange(obj, fd, td)
                  THEN /\ yielded' = <<OccurrenceTuple(obj.start, obj.end, obj.pk)>>
                       /\ gen_pc' = "single"
                  ELSE /\ gen_pc' = "done"
                       /\ UNCHANGED yielded
               /\ UNCHANGED <<delta, repeater, pulled, count>>
          ELSE /\ delta' = Delta(obj)
               /\ repeater' = Repeater(obj, fd, td)
               /\ LoopTurn(Repeater(obj, fd, td), 0, 0)
    /\ UNCHANGED <<USE_TZ, clock, obj, from_date, to_date, limit, merge_vars,
                   query_vars>>

(* A later next() on the generator *)
ExpandResume ==
    /\ gen_pc \in {"single", "loop"}
    /\ IF gen_pc = "single"
       THEN /\ gen_pc' = "done"
            /\ UNCHANGED <<pulled, count, yielded>>
       ELSE LoopTurn(repeater, pulled, count)
    /\ UNCHANGED <<USE_TZ, clock, obj, from_date, to_date, limit, delta, repeater,
                   merge_vars, query_vars>>

----------------------------------------------------------------------------
(* combine_occurrences *)

(* limit=None *)
NoLimit == -1

(* key=lambda occ: occ.start *)
MergeKey(occ) == occ.start.t

(* heapq.merge holds, for every input that is not exhausted, the one item
   taken from it and not yet yielded: input o is in the heap iff
   pulled[o] > emitted[o], with entry [key, order, value] *)
InHeap(pl, em) == {o \in DOMAIN pl : pl[o] > em[o]}

(* the smallest entry of the heap, by key and then by order *)
HeapTop(ins, pl, em) ==
    CHOOSE o \in InHeap(pl, em) :
        \A p \in InHeap(pl, em) :
            \/ MergeKey(ins[o][pl[o]]) < MergeKey(ins[p][pl[p]])
            \/ (MergeKey(ins[o][pl[o]]) = MergeKey(ins[p][pl[p]]) /\ o <= p)

Refill_TwoAhead(ins, pl, last) ==
    IF last = 0
    THEN [o \in DOMAIN ins |-> Min(2, Len(ins[o]))]
    ELSE [pl EXCEPT ![last] = IF pl[last] < Len(ins[last]) THEN pl[last] + 1
                                ELSE pl[last]]

(* what merged has taken from the inputs when it is asked for its next
   item: on the first request one item of every input, afterwards the
   successor of the item it yielded last *)
Refill(ins, pl, last) ==
    IF last = 0
    THEN [o \in DOMAIN ins |-> IF Len(ins[o]) > 0 THEN 1 ELSE 0]
    ELSE [pl EXCEPT ![last] = IF pl[last] < Len(ins[last]) THEN pl[last] + 1
                                ELSE pl[last]]

(* next(merged): stop is StopIteration *)
MergedNext(ins, pl, em, last) ==
    LET pl2 == Refill(ins, pl, last)
    IN IF InHeap(pl2, em) = {}
       THEN [stop |-> TRUE, pulled |-> pl2, emitted |-> em, last |-> last,
             value |-> OccurrenceTuple(None, None, 0)]
       ELSE LET o == HeapTop(ins, pl2, em)
            IN [stop |-> FALSE, pulled |-> pl2,
                emitted |-> [em EXCEPT ![o] = em[o] + 1], last |-> o,
                value |-> ins[o][pl2[o]]]

LimitHit_After(i, lim) == lim # NoLimit /\ i > lim

(* lines 111, 115 *)
LimitHit(i, lim) == lim # NoLimit /\ i >= lim

(* One next() on the combine_occurrences generator: lines 109-117 *)
CombineTurn ==
    LET r == MergedNext(inputs, m_pulled, m_emitted, m_last)
    IN /\ m_pulled' = r.pulled
       /\ IF r.stop
          THEN /\ m_pc' = "done"
               /\ UNCHANGED <<m_emitted, m_last, m_i, m_out>>
          ELSE /\ m_emitted' = r.emitted
               /\ m_last' = r.last
               /\ m_i' = m_i + 1
               /\ IF LimitHit(m_i, merge_limit)
                  THEN /\ m_pc' = "done"
                       /\ UNCHANGED m_out
                  ELSE /\ m_pc' = "yielded"
                       /\ m_out' = Append(m_out, r.value)

(* the first next(): merged is created, then asked for its first item *)
CombineStart ==
    /\ m_pc = "created"
    /\ CombineTurn
    /\ UNCHANGED <<USE_TZ, clock, expand_vars, inputs, merge_limit, query_vars>>

(* a later next() *)
CombineResume ==
    /\ m_pc = "yielded"
    /\ CombineTurn
    /\ UNCHANGED <<USE_TZ, clock, expand_vars, inputs, merge_limit, query_vars>>

----------------------------------------------------------------------------
(* The records and arguments of the model *)

Ends(s) == {None} \cup {Stored(s + d) : d \in (-1)..MaxDur}

Records ==
    {[pk |-> 1, start |-> Stored(s), end |-> e, repeat |-> r, repeat_until |-> u] :
        s \in 0..MaxStart,
        e \in UNION {Ends(x) : x \in 0..MaxStart},
        r \in {""} \cup Rules,
        u \in {None} \cup {Date(d) : d \in 0..MaxDay}}

Bounds ==
    {None} \cup {Date(d) : d \in 0..MaxDay}
           \cup {Stored(t) : t \in 0..((MaxDay + 1) * TicksPerDay - 1)}

Limits == 0..MaxLimit \cup {REPEAT_MAX}

----------------------------------------------------------------------------
(* Everything the generator all_occurrences(from_date, to_date, limit) of a
   record yields, in order: lines 530-573 run to the end *)
all_occurrences(rec, from_arg, to_arg, lim) ==
    LET fd == NormFrom(from_arg)
        td == NormTo(to_arg)
    IN IF rec.repeat = ""
       THEN IF SingleInRange(rec, fd, td)
            THEN <<OccurrenceTuple(rec.start, rec.end, rec.pk)>>
            ELSE <<>>
       ELSE LET rep == Repeater(rec, fd, td)
            IN [i \in 1..Min(Len(rep), lim) |-> RepeatOccurrence(rec, rep[i])]

(* first_item returns None for an empty generator *)
NoOccurrence == OccurrenceTuple(None, None, 0)

first_item_Last(gen) == IF gen = <<>> THEN NoOccurrence ELSE gen[Len(gen)]

first_item(gen) == IF gen = <<>> THEN NoOccurrence ELSE gen[1]

(* OccurrenceMixin.next_occurrence on a record; now is datetime.now() *)
next_occurrence(rec, from_arg, to_arg, now) ==
    first_item(all_occurrences(rec,
                               IF ~Truthy(from_arg) THEN Naive(now) ELSE from_arg,
                               to_arg, REPEAT_MAX))

(* OccurrenceMixin.first_occurrence on a record *)
first_occurrence(rec) == first_item(all_occurrences(rec, None, None, REPEAT_MAX))

----------------------------------------------------------------------------
(* The range filters of OccurrenceQuerySet *)

(* repeat_until__gte=from_date: the DateField lookup takes the date of the
   datetime in the default time zone *)
DateLookup(dt) == default_naive(dt).t \div TicksPerDay

filter_from(q, from_arg) ==
    LET fd == as_datetime(from_arg, FALSE)
    IN SelectSeq(q, LAMBDA rec :
           \/ (Truthy(rec.end) /\ rec.end.t >= fd.t)
           \/ rec.start.t >= fd.t
           \/ /\ rec.repeat # ""
              /\ \/ (Truthy(rec.repeat_until) /\ rec.repeat_until.t >= DateLookup(fd))
                 \/ ~Truthy(rec.repeat_until))

(* for_period up to line 427: the approximate filter *)
ApproximateFilter(q, from_arg, to_arg) ==
    LET q1 == IF Truthy(to_arg)
              THEN SelectSeq(q, LAMBDA rec : rec.start.t <= as_datetime(to_arg, TRUE).t)
              ELSE q
    IN IF Truthy(from_arg) THEN filter_from(q1, from_arg) ELSE q1

(* for_period(from_date, to_date, exact) is called on the queryset *)
ForPeriod ==
    /\ q_pc = "idle"
    /\ \E f \in Bounds, t \in Bounds, exact \in BOOLEAN :
          LET filtered == ApproximateFilter(qs, f, t)
          IN /\ call' = [op |-> "for_period", target |-> 0, from_date |-> f,
                         to_date |-> t, exact |-> exact, now |-> clock,
                         limit |-> NoLimit]
             /\ IF Truthy(f) /\ exact
                THEN /\ q_pc' = "filter_invalid"
                     /\ approx_qs' = filtered
                     /\ fi_from_date' = f
                     /\ fi_to_date' = NormTo(t)
                     /\ progress_callback' = FALSE
                     /\ total' = Len(filtered)
                     /\ UNCHANGED result
                ELSE /\ q_pc' = "returned"
                     /\ result' = filtered
                     /\ UNCHANGED <<approx_qs, fi_from_date, fi_to_date,
                                    progress_callback, total>>
    /\ UNCHANGED <<USE_TZ, clock, expand_vars, merge_vars, qs, fi_i, exclude_pks,
                   progress, evaluated, kept>>

(* filter_invalid(approx_qs, from_date, to_date, progress_callback) is
   called on the queryset: lines 149-150 *)
FilterInvalid ==
    /\ q_pc = "idle"
    /\ \E f \in Bounds, t \in Bounds, cb \in BOOLEAN :
          /\ call' = [op |-> "filter_invalid", target |-> 0, from_date |-> f,
                      to_date |-> t, exact |-> TRUE, now |-> clock,
                      limit |-> NoLimit]
          /\ fi_from_date' = f
          /\ fi_to_date' = t
          /\ progress_callback' = cb
    /\ approx_qs' = qs
    /\ total' = Len(qs)
    /\ q_pc' = "filter_invalid"
    /\ UNCHANGED <<USE_TZ, clock, expand_vars, merge_vars, qs, fi_i, exclude_pks,
                   progress, evaluated, kept, result>>

ProgressArgs_FromZero(i, tot) == <<i - 1, tot>>

(* line 154: progress_callback(i, total) *)
ProgressArgs(i, tot) == <<i, tot>>

(* lines 155-156, for the record that enumerate numbered i *)
ExcludeInvalid(i) ==
    /\ evaluated' = Append(evaluated, approx_qs[i].pk)
    /\ exclude_pks' =
          IF next_occurrence(approx_qs[i], fi_from_date, fi_to_date, clock)
                 = NoOccurrence
          THEN exclude_pks \cup {approx_qs[i].pk}
          ELSE exclude_pks

(* filter_invalid, one turn of the loop at lines 152-156: up to the call
   of progress_callback when there is one, to the end of the turn otherwise *)
FilterInvalidStep ==
    /\ q_pc = "filter_invalid"
    /\ fi_i < Len(approx_qs)
    /\ fi_i' = fi_i + 1
    /\ IF progress_callback
       THEN /\ progress' = Append(progress, ProgressArgs(fi_i + 1, total))
            /\ q_pc' = "progress_callback"
            /\ UNCHANGED <<exclude_pks, evaluated>>
       ELSE /\ ExcludeInvalid(fi_i + 1)
            /\ UNCHANGED <<progress, q_pc>>
    /\ UNCHANGED <<USE_TZ, clock, expand_vars, merge_vars, qs, call, approx_qs,
                   fi_from_date, fi_to_date, progress_callback, total, kept,
                   result>>

(* progress_callback has returned: the rest of the turn, lines 155-156 *)
FilterInvalidEvaluate ==
    /\ q_pc = "progress_callback"
    /\ ExcludeInvalid(fi_i)
    /\ q_pc' = "filter_invalid"
    /\ UNCHANGED <<USE_TZ, clock, expand_vars, merge_vars, qs, call, approx_qs,
                   fi_from_date, fi_to_date, progress_callback, total, fi_i,
                   progress, kept, result>>

(* filter_invalid, line 159 *)
FilterInvalidReturn ==
    /\ q_pc = "filter_invalid"
    /\ fi_i = Len(approx_qs)
    /\ result' = SelectSeq(approx_qs, LAMBDA rec : rec.pk \notin exclude_pks)
    /\ q_pc' = "returned"
    /\ UNCHANGED <<USE_TZ, clock, expand_vars, merge_vars, qs, call, filter_vars,
                   kept>>

----------------------------------------------------------------------------
(* BaseQuerySet.all_occurrences and the helpers of OccurrenceMixin *)

RECURSIVE Drain(_, _, _, _, _, _, _)
Drain(ins, pl, em, last, i, out, lim) ==
    LET r == MergedNext(ins, pl, em, last)
    IN IF r.stop \/ LimitHit(i, lim)
       THEN out
       ELSE Drain(ins, r.pulled, r.emitted, r.last, i + 1, Append(out, r.value), lim)

(* everything combine_occurrences(generators, limit) yields, in order *)
combine_occurrences(ins, lim) ==
    Drain(ins, [o \in DOMAIN ins |-> 0], [o \in DOMAIN ins |-> 0], 0, 0, <<>>, lim)

(* BaseQuerySet.all_occurrences, lines 269-272 *)
qs_all_occurrences(q, from_arg, to_arg, lim) ==
    LET filtered == ApproximateFilter(q, from_arg, to_arg)
    IN combine_occurrences(
           [i \in 1..Len(filtered) |->
               all_occurrences(filtered[i], from_arg, to_arg, REPEAT_MAX)],
           lim)

(* all_occurrences(from_date, to_date, limit) is called on the queryset and
   the generator it returns is read to its end *)
AllOccurrences ==
    /\ q_pc = "idle"
    /\ \E f \in Bounds, t \in Bounds, lim \in {NoLimit} \cup 0..MaxLimit :
          /\ call' = [op |-> "all_occurrences", target |-> 0, from_date |-> f,
                      to_date |-> t, exact |-> FALSE, now |-> clock,
                      limit |-> lim]
          /\ result' = qs_all_occurrences(qs, f, t, lim)
    /\ q_pc' = "returned"
    /\ UNCHANGED <<USE_TZ, clock, expand_vars, merge_vars, qs, filter_vars, kept>>

(* OccurrenceMixin.next_occurrence on a queryset *)
qs_next_occurrence(q, from_arg, to_arg, now) ==
    first_item(qs_all_occurrences(q,
                                  IF ~Truthy(from_arg) THEN Naive(now) ELSE from_arg,
                                  to_arg, NoLimit))

(* OccurrenceMixin.first_occurrence on a queryset *)
qs_first_occurrence(q) == first_item(qs_all_occurrences(q, None, None, NoLimit))

(* next_occurrence(from_date, to_date) is called on record target of the
   queryset, or on the queryset itself (target 0) *)
NextOccurrence ==
    /\ q_pc = "idle"
    /\ \E target \in 0..Len(qs), f \in Bounds, t \in Bounds :
          /\ call' = [op |-> "next_occurrence", target |-> target,
                      from_date |-> f, to_date |-> t, exact |-> FALSE,
                      now |-> clock, limit |-> NoLimit]
          /\ result' = IF target = 0 THEN qs_next_occurrence(qs, f, t, clock)
                       ELSE next_occurrence(qs[target], f, t, clock)
    /\ q_pc' = "returned"
    /\ UNCHANGED <<USE_TZ, clock, expand_vars, merge_vars, qs, filter_vars, kept>>

(* first_occurrence() is called on a record or on the queryset *)
FirstOccurrence ==
    /\ q_pc = "idle"
    /\ \E target \in 0..Len(qs) :
          /\ call' = [op |-> "first_occurrence", target |-> target,
                      from_date |-> None, to_date |-> None, exact |-> FALSE,
                      now |-> clock, limit |-> NoLimit]
          /\ result' = IF target = 0 THEN qs_first_occurrence(qs)
                       ELSE first_occurrence(qs[target])
    /\ q_pc' = "returned"
    /\ UNCHANGED <<USE_TZ, clock, expand_vars, merge_vars, qs, filter_vars, kept>>

(* sort_key of sort_by_next, lines 253-255, evaluated when the clock shows now *)
sort_key(rec, from_arg, now) == next_occurrence(rec, from_arg, None, now).start

RECURSIVE InsertByKey(_, _, _, _)
InsertByKey(sorted, rec, from_arg, now) ==
    IF sorted = <<>> THEN <<rec>>
    ELSE IF sort_key(sorted[Len(sorted)], from_arg, now).t <= sort_key(rec, from_arg, now).t
         THEN Append(sorted, rec)
         ELSE Append(InsertByKey(SubSeq(sorted, 1, Len(sorted) - 1), rec, from_arg, now),
                     sorted[Len(sorted)])

(* sorted(list, key=sort_key): stable, ascending *)
RECURSIVE SortedByKey(_, _, _)
SortedByKey(list, from_arg, now) ==
    IF list = <<>> THEN <<>>
    ELSE InsertByKey(SortedByKey(SubSeq(list, 1, Len(list) - 1), from_arg, now),
                     list[Len(list)], from_arg, now)

(* sort_by_next(from_date), line 256: the list comprehension
   [e for e in self if sort_key(e)] *)
SortByNextKeep ==
    /\ q_pc = "idle"
    /\ \E f \in Bounds :
          /\ call' = [op |-> "sort_by_next", target |-> 0, from_date |-> f,
                      to_date |-> None, exact |-> FALSE, now |-> clock,
                      limit |-> NoLimit]
          /\ kept' = SelectSeq(qs, LAMBDA rec : Truthy(sort_key(rec, f, clock)))
    /\ q_pc' = "sorting"
    /\ UNCHANGED <<USE_TZ, clock, expand_vars, merge_vars, qs, filter_vars, result>>

(* sort_by_next(from_date), line 256: sorted(..., key=sort_key) evaluates
   sort_key again for every element; comparing a None key raises TypeError *)
SortByNextSort ==
    /\ q_pc = "sorting"
    /\ IF Len(kept) >= 2 /\
          \E i \in 1..Len(kept) : ~Truthy(sort_key(kept[i], call.from_date, clock))
       THEN /\ q_pc' = "raised"
            /\ UNCHANGED result
       ELSE /\ q_pc' = "returned"
            /\ result' = SortedByKey(kept, call.from_date, clock)
    /\ UNCHANGED <<USE_TZ, clock, expand_vars, merge_vars, qs, call, filter_vars, kept>>

(* time passes while sort_by_next runs *)
Tick ==
    /\ q_pc = "sorting"
    /\ clock < MaxClock
    /\ clock' = clock + 1
    /\ UNCHANGED <<USE_TZ, expand_vars, merge_vars, query_vars>>

----------------------------------------------------------------------------
(* Initial states and specifications *)

ExpandIdle ==
    /\ obj = [pk |-> 1, start |-> Naive(0), end |-> None, repeat |-> "",
              repeat_until |-> None]
    /\ from_date = None
    /\ to_date = None
    /\ limit = REPEAT_MAX
    /\ gen_pc = "idle"
    /\ delta = 0
    /\ repeater = <<>>
    /\ pulled = 0
    /\ count = 0
    /\ yielded = <<>>

MergeIdle ==
    /\ inputs = <<>>
    /\ merge_limit = NoLimit
    /\ m_pc = "idle"
    /\ m_pulled = <<>>
    /\ m_emitted = <<>>
    /\ m_last = 0
    /\ m_i = 0
    /\ m_out = <<>>

NoCall == [op |-> "none", target |-> 0, from_date |-> None, to_date |-> None,
           exact |-> FALSE, now |-> 0, limit |-> NoLimit]

QueryIdle ==
    /\ qs = <<>>
    /\ call = NoCall
    /\ q_pc = "idle"
    /\ approx_qs = <<>>
    /\ fi_from_date = None
    /\ fi_to_date = None
    /\ progress_callback = FALSE
    /\ total = 0
    /\ fi_i = 0
    /\ exclude_pks = {}
    /\ progress = <<>>
    /\ evaluated = <<>>
    /\ kept = <<>>
    /\ result = <<>>

InitExpand ==
    /\ MergeIdle
    /\ QueryIdle
    /\ USE_TZ \in BOOLEAN
    /\ clock = 0
    /\ obj \in {r \in Records : r.end \in Ends(default_naive(r.start).t)}
    /\ from_date \in Bounds
    /\ to_date \in Bounds
    /\ limit \in Limits
    /\ gen_pc = "created"
    /\ delta = 0
    /\ repeater = <<>>
    /\ pulled = 0
    /\ count = 0
    /\ yielded = <<>>

NextExpand == ExpandStart \/ ExpandResume

SpecExpand == InitExpand /\ [][NextExpand]_vars

(* Input generators of combine_occurrences: input o yields items whose
   starts do not decrease *)
KeySeqs ==
    {q \in UNION {[1..n -> 0..MaxKey] : n \in 0..MaxSeqLen} :
        \A i \in 1..(Len(q) - 1) : q[i] <= q[i + 1]}

ItemsOf(o, keys) ==
    [j \in 1..Len(keys) |-> OccurrenceTuple(Stored(keys[j]), None, o)]

InputFamilies ==
    UNION {{[o \in 1..k |-> ItemsOf(o, f[o])] : f \in [1..k -> KeySeqs]} :
              k \in 1..MaxInputs}

MergeLimits == {NoLimit} \cup 0..MaxLimit

InitMerge ==
    /\ ExpandIdle
    /\ QueryIdle
    /\ USE_TZ \in BOOLEAN
    /\ clock = 0
    /\ inputs \in InputFamilies
    /\ merge_limit \in MergeLimits
    /\ m_pc = "created"
    /\ m_pulled = [o \in DOMAIN inputs |-> 0]
    /\ m_emitted = [o \in DOMAIN inputs |-> 0]
    /\ m_last = 0
    /\ m_i = 0
    /\ m_out = <<>>

NextMerge == CombineStart \/ CombineResume

SpecMerge == InitMerge /\ [][NextMerge]_vars

(* The stored records of a queryset: pk is the position, and the queryset
   iterates in Meta.ordering, by start *)
QRecords ==
    {r \in Records :
        /\ default_naive(r.start).t <= QMaxStart
        /\ r.end \in {None, Shift(r.start, 1)}
        /\ r.repeat \in {"", DAILY}}

Collections ==
    {q \in UNION {[1..n -> QRecords] : n \in 1..MaxRecords} :
        \A i \in 1..(Len(q) - 1) : q[i].start.t <= q[i + 1].start.t}

WithPks(q) == [i \in 1..Len(q) |-> [q[i] EXCEPT !.pk = i]]

InitFilter ==
    /\ ExpandIdle
    /\ MergeIdle
    /\ USE_TZ \in BOOLEAN
    /\ clock = 0
    /\ qs \in {WithPks(q) : q \in Collections}
    /\ call = NoCall
    /\ q_pc = "idle"
    /\ approx_qs = <<>>
    /\ fi_from_date = None
    /\ fi_to_date = None
    /\ progress_callback = FALSE
    /\ total = 0
    /\ fi_i = 0
    /\ exclude_pks = {}
    /\ progress = <<>>
    /\ evaluated = <<>>
    /\ kept = <<>>
    /\ result = <<>>

NextFilter ==
    \/ ForPeriod
    \/ FilterInvalid
    \/ FilterInvalidStep
    \/ FilterInvalidEvaluate
    \/ FilterInvalidReturn
    \/ AllOccurrences

SpecFilter == InitFilter /\ [][NextFilter]_vars

InitFacade ==
    /\ ExpandIdle
    /\ MergeIdle
    /\ USE_TZ \in BOOLEAN
    /\ clock \in 0..MaxClock
    /\ qs \in {WithPks(q) : q \in Collections}
    /\ call = NoCall
    /\ q_pc = "idle"
    /\ approx_qs = <<>>
    /\ fi_from_date = None
    /\ fi_to_date = None
    /\ progress_callback = FALSE
    /\ total = 0
    /\ fi_i = 0
    /\ exclude_pks = {}
    /\ progress = <<>>
    /\ evaluated = <<>>
    /\ kept = <<>>
    /\ result = <<>>

NextFacade ==
    NextOccurrence \/ FirstOccurrence \/ SortByNextKeep \/ SortByNextSort \/ Tick

SpecFacade == InitFacade /\ [][NextFacade]_vars

----------------------------------------------------------------------------
(* The vocabulary of the properties: local wall-clock ticks *)

LocalTick(dt) == IF dt.aware THEN dt.t + TzOffset ELSE dt.t

DayOf(tick) == tick \div TicksPerDay

(* from_bound / to_bound as instants: a bare date is its 00:00:00 as a
   lower bound and its 23:59:59 as an upper bound *)
FromTick(b) == IF b.kind = "date" THEN b.t * TicksPerDay ELSE LocalTick(b)
ToTick(b) == IF b.kind = "date" THEN b.t * TicksPerDay + TicksPerDay - 1
             ELSE LocalTick(b)

StartTick(rec) == LocalTick(rec.start)
EndOrStartTick(rec) == IF Truthy(rec.end) THEN LocalTick(rec.end) ELSE StartTick(rec)
SpanEndTick(rec) == Max(StartTick(rec), EndOrStartTick(rec))

Returned(q) == {q[i].pk : i \in 1..Len(q)}

AscendingStarts(occs) ==
    \A i \in 1..(Len(occs) - 1) : occs[i].start.t < occs[i + 1].start.t

----------------------------------------------------------------------------
(* The step-wise generators and their drained forms agree *)

ExpandAgrees ==
    gen_pc = "done" => yielded = all_occurrences(obj, from_date, to_date, limit)

CombineAgrees ==
    m_pc = "done" => m_out = combine_occurrences(inputs, merge_limit)

----------------------------------------------------------------------------
(* Properties of next_occurrence, first_occurrence and sort_by_next, under
   SpecFacade *)

(* the from_date the call hands to all_occurrences *)
EffectiveFrom ==
    IF call.op = "first_occurrence" THEN None
    ELSE IF Truthy(call.from_date) THEN call.from_date ELSE Naive(call.now)

(* the sequence the call takes its first item from *)
CalledSequence ==
    IF call.target = 0
    THEN qs_all_occurrences(qs, EffectiveFrom, call.to_date, NoLimit)
    ELSE all_occurrences(qs[call.target], EffectiveFrom, call.to_date, REPEAT_MAX)

OccEndTick(occ) == IF Truthy(occ.end) THEN LocalTick(occ.end) ELSE LocalTick(occ.start)

(* C9: next_occurrence returns the first item of all_occurrences(from_bound,
   to_bound), from_bound being the current instant when absent, and
   first_occurrence the first item of all_occurrences(); both return None
   when that sequence is empty; the occurrence returned has the least start
   of the sequence, and one returned for an absent from_bound starts or
   ends at or after the current instant. *)
C9_NextIsFirstAndEarliest ==
    (q_pc = "returned" /\ call.op \in {"next_occurrence", "first_occurrence"}) =>
        LET seq == CalledSequence
        IN /\ seq = <<>> => result = NoOccurrence
           /\ seq # <<>> =>
                 /\ result = seq[1]
                 /\ \A i \in 1..Len(seq) : result.start.t <= seq[i].start.t
           /\ (call.op = "next_occurrence" /\ ~Truthy(call.from_date)
                  /\ result # NoOccurrence) =>
                 Max(LocalTick(result.start), OccEndTick(result)) >= call.now

(* C9 witness: next_occurrence on a queryset of two records, with no
   from_bound and the clock past tick 0, returned an occurrence of the
   second record out of a sequence holding occurrences of both *)
C9_Witness ==
    /\ q_pc = "returned"
    /\ call.op = "next_occurrence"
    /\ call.target = 0
    /\ ~Truthy(call.from_date)
    /\ Truthy(call.to_date)
    /\ call.now > 0
    /\ result # NoOccurrence
    /\ result.instance = 2
    /\ \E i \in 1..Len(CalledSequence) : CalledSequence[i].instance = 1

HasNext(rec, now) == next_occurrence(rec, call.from_date, None, now) # NoOccurrence

(* C10, as stated: sort_by_next(from_bound) returns exactly the records
   that have a next occurrence, none twice, ordered by non-decreasing start
   of their next_occurrence(from_bound); the current instant is read
   either as of the call or as of the return. *)
C10_SortByNextExactAndOrdered ==
    (call.op = "sort_by_next" /\ q_pc \in {"returned", "raised"}) =>
        /\ q_pc = "returned"
        /\ \E now \in {call.now, clock} :
              /\ Returned(result) = {qs[i].pk : i \in {j \in 1..Len(qs) : HasNext(qs[j], now)}}
              /\ Cardinality(Returned(result)) = Len(result)
              /\ \A i \in 1..(Len(result) - 1) :
                    sort_key(result[i], call.from_date, now).t
                        <= sort_key(result[i + 1], call.from_date, now).t

----------------------------------------------------------------------------
(* Properties of the range filters, under SpecFilter *)

(* a record has a true occurrence in range *)
HasOccurrence(rec, from_arg, to_arg) ==
    all_occurrences(rec, from_arg, to_arg, REPEAT_MAX) # <<>>

(* C1, as stated: for_period with exact=False never excludes a record that
   has at least one occurrence in [from_bound, to_bound]. *)
C1_ApproximateNoFalseNegatives ==
    (q_pc = "returned" /\ call.op = "for_period" /\ ~call.exact) =>
        \A i \in 1..Len(qs) :
            HasOccurrence(qs[i], call.from_date, call.to_date)
                => qs[i].pk \in Returned(result)

(* C8, as stated: for_period with exact=True returns a record iff its
   expansion bounded to [from_bound, to_bound] yields an occurrence,
   whichever of the bounds are present. *)
C8_ExactNoFalsePositivesOrNegatives ==
    (q_pc = "returned" /\ call.op = "for_period" /\ call.exact) =>
        \A i \in 1..Len(qs) :
            qs[i].pk \in Returned(result)
                <=> HasOccurrence(qs[i], call.from_date, call.to_date)

(* the records of approx_qs that filter_invalid is to keep *)
ValidRecords ==
    SelectSeq(approx_qs, LAMBDA rec :
        next_occurrence(rec, call.from_date, call.to_date, call.now) # NoOccurrence)

(* C13: filter_invalid with a progress callback calls it exactly once per
   record traversed, with (i, total), i running 1, 2, ..., n and total being
   the count of the collection taken before the traversal; the callback of
   a record comes after the evaluation of the record before it and before
   the evaluation of its own expansion; and the result is the same with
   and without a callback, which without one is never called. *)
C13_ProgressCallback ==
    call.op = "filter_invalid" =>
        /\ total = Len(qs)
        /\ evaluated = [j \in 1..Len(evaluated) |-> approx_qs[j].pk]
        /\ progress_callback =>
              /\ progress = [j \in 1..fi_i |-> <<j, Len(qs)>>]
              /\ Len(evaluated) =
                    IF q_pc = "progress_callback" THEN fi_i - 1 ELSE fi_i
        /\ ~progress_callback =>
              /\ progress = <<>>
              /\ Len(evaluated) = fi_i
        /\ q_pc = "returned" =>
              /\ fi_i = Len(qs)
              /\ Len(evaluated) = Len(qs)
              /\ result = ValidRecords

(* C13 witness: filter_invalid with a callback and both bounds went over two
   records, called the callback twice and excluded one of the records *)
C13_Witness ==
    /\ call.op = "filter_invalid"
    /\ q_pc = "returned"
    /\ progress_callback
    /\ Truthy(call.from_date) /\ Truthy(call.to_date)
    /\ progress = <<<<1, 2>>, <<2, 2>>>>
    /\ Len(result) = 1

(* C14, as stated: the stream of all_occurrences(from_bound, to_bound) of
   a queryset, read without limit, holds every occurrence that a record of
   the queryset yields from its own all_occurrences(from_bound, to_bound). *)
C14_PipelineComplete ==
    (q_pc = "returned" /\ call.op = "all_occurrences" /\ call.limit = NoLimit) =>
        \A i \in 1..Len(qs) :
            LET own == all_occurrences(qs[i], call.from_date, call.to_date,
                                       REPEAT_MAX)
            IN \A j \in 1..Len(own) :
                   \E k \in 1..Len(result) : result[k] = own[j]

----------------------------------------------------------------------------
(* Properties of combine_occurrences, under SpecMerge *)

TotalItems == IF DOMAIN inputs = {} THEN 0
              ELSE LET RECURSIVE Sum(_)
                       Sum(k) == IF k = 0 THEN 0 ELSE Len(inputs[k]) + Sum(k - 1)
                   IN Sum(Len(inputs))

FromInput(o) == SelectSeq(m_out, LAMBDA occ : occ.instance = o)

LocalStarts(items) == [j \in 1..Len(items) |-> LocalTick(items[j].start)]

(* C4: the output is sorted by start; it is a prefix of a sorted
   permutation of the inputs' items (what it holds of an input is a prefix
   of that input, and no item left behind starts before an item produced);
   with limit L it ends with exactly min(L, total) items, without limit
   with all of them. *)
C4_MergeSortedPrefix ==
    /\ \A i \in 1..(Len(m_out) - 1) : MergeKey(m_out[i]) <= MergeKey(m_out[i + 1])
    /\ \A o \in DOMAIN inputs :
          /\ Len(FromInput(o)) <= Len(inputs[o])
          /\ FromInput(o) = SubSeq(inputs[o], 1, Len(FromInput(o)))
          /\ \A j \in (Len(FromInput(o)) + 1)..Len(inputs[o]) :
                \A i \in 1..Len(m_out) : MergeKey(m_out[i]) <= MergeKey(inputs[o][j])
    /\ m_pc = "done" =>
          Len(m_out) = IF merge_limit = NoLimit THEN TotalItems
                       ELSE Min(merge_limit, TotalItems)

(* C4 witness: starts 0 and 1 merged with a second start 0 under limit 2
   gave the two items of start 0, the first input's before the second's,
   and left the item of start 1 behind *)
C4_Witness ==
    /\ m_pc = "done"
    /\ Len(inputs) = 2
    /\ LocalStarts(inputs[1]) = <<0, 1>>
    /\ LocalStarts(inputs[2]) = <<0>>
    /\ merge_limit = 2
    /\ Len(m_out) = 2
    /\ m_out[1].instance = 1 /\ m_out[2].instance = 2

(* C5, as stated: with a limit L, once L items have been yielded no further
   item is taken from any input generator, also when the consumer asks for
   one more item and the merge ends; with L = 0 nothing is taken beyond the
   one item per input that the merge holds. *)
C5_NoPullAfterLimit ==
    /\ [](merge_limit = 0 => \A o \in DOMAIN inputs : m_pulled[o] <= 1)
    /\ [][(merge_limit > 0 /\ Len(m_out) = merge_limit)
            => m_pulled' = m_pulled]_vars

(* the items taken from input o and not yielded by combine_occurrences *)
Held(o) == m_pulled[o] - Len(FromInput(o))

(* C12: at every point of a merge, whatever the limit and however far the
   consumer has read, at most one item of each input generator has been
   taken and not yet yielded, so the items held number at most the inputs
   and an input is only ever taken one item at a time. *)
C12_WorkingSetBounded ==
    /\ [](/\ \A o \in DOMAIN inputs :
                /\ Held(o) \in {0, 1}
                /\ m_pulled[o] - m_emitted[o] \in {0, 1}
          /\ Cardinality(InHeap(m_pulled, m_emitted)) <= Len(inputs))
    /\ [][\A o \in DOMAIN inputs : m_pulled'[o] - m_pulled[o] \in {0, 1}]_vars

(* C12 witness: in the middle of a merge of two generators without limit,
   after two items were yielded, an item of a generator is held while that
   generator has more to give *)
C12_Witness ==
    /\ m_pc = "yielded"
    /\ merge_limit = NoLimit
    /\ Len(inputs) = 2
    /\ Len(m_out) >= 2
    /\ \E o \in DOMAIN inputs : Held(o) = 1 /\ m_pulled[o] < Len(inputs[o])

----------------------------------------------------------------------------
(* Properties of BaseOccurrence.all_occurrences, under SpecExpand *)

(* C2, as stated: a record without repeat yields at most one occurrence,
   and yields it iff (end if present, otherwise start) >= from_bound or
   from_bound is absent, and start <= to_bound or to_bound is absent. *)
C2_SpanIntersectsAsStated ==
    (obj.repeat = "" /\ gen_pc = "done") =>
        /\ Len(yielded) <= 1
        /\ Len(yielded) = 1 <=>
             /\ (~Truthy(from_date) \/ EndOrStartTick(obj) >= FromTick(from_date))
             /\ (~Truthy(to_date) \/ StartTick(obj) <= ToTick(to_date))

(* C2, amended: a record without repeat yields at most one occurrence, and
   yields it iff the later of start and end (start when end is absent) is
   >= from_bound or from_bound is absent, and start <= to_bound or to_bound
   is absent; the occurrence is the record's own (start, end). *)
C2_SpanIntersects ==
    obj.repeat = "" =>
        /\ Len(yielded) <= 1
        /\ Len(yielded) = 1 =>
             yielded[1] = OccurrenceTuple(obj.start, obj.end, obj.pk)
        /\ gen_pc = "done" =>
             (Len(yielded) = 1 <=>
                /\ (~Truthy(from_date) \/ SpanEndTick(obj) >= FromTick(from_date))
                /\ (~Truthy(to_date) \/ StartTick(obj) <= ToTick(to_date)))

(* C2 witness: a record whose end equals from_bound and whose start equals
   to_bound has been expanded and has yielded its occurrence *)
C2_Witness ==
    /\ obj.repeat = ""
    /\ gen_pc = "done"
    /\ Len(yielded) = 1
    /\ Truthy(from_date) /\ Truthy(to_date) /\ Truthy(obj.end)
    /\ LocalTick(obj.end) = FromTick(from_date)
    /\ StartTick(obj) = ToTick(to_date)
    /\ StartTick(obj) < LocalTick(obj.end)

(* C3: a repeating record with limit N yields at most N occurrences, in
   strictly ascending start order. *)
C3_AtMostLimitAscending ==
    obj.repeat # "" =>
        /\ Len(yielded) <= limit
        /\ AscendingStarts(yielded)

(* C3 witness: the expansion was cut at limit = 2 with instants left over *)
C3_Witness ==
    /\ obj.repeat # ""
    /\ gen_pc = "done"
    /\ limit = 2
    /\ Len(yielded) = 2
    /\ Len(repeater) > 2

(* C6, as stated: the number of repeat instants taken from the rule engine
   never exceeds the number of occurrences yielded (hence never max_count). *)
C6_PulledAtMostYielded ==
    obj.repeat # "" => (pulled <= Len(yielded) /\ pulled <= limit)

(* C7: a repeating record whose repeat_until date is before the date of
   start yields nothing, and its generator ends at the first next(). *)
C7_UntilBeforeStartEmpty ==
    (/\ obj.repeat # ""
     /\ Truthy(obj.repeat_until)
     /\ obj.repeat_until.t < DayOf(StartTick(obj))) =>
        /\ yielded = <<>>
        /\ gen_pc \in {"created", "done"}

(* C7 witness: such a record was expanded with both bounds present *)
C7_Witness ==
    /\ obj.repeat # ""
    /\ Truthy(obj.repeat_until)
    /\ obj.repeat_until.t < DayOf(StartTick(obj))
    /\ Truthy(from_date) /\ Truthy(to_date)
    /\ StartTick(obj) <= ToTick(to_date)
    /\ gen_pc = "done"

----------------------------------------------------------------------------
(* The window of a repeating record, in local wall-clock ticks *)

DurationTicks == IF Truthy(obj.end) THEN LocalTick(obj.end) - StartTick(obj) ELSE 0

(* max(from_bound, start) - d *)
WindowLow ==
    (IF Truthy(from_date) THEN Max(FromTick(from_date), StartTick(obj))
     ELSE StartTick(obj)) - DurationTicks

UntilTick == obj.repeat_until.t * TicksPerDay + TicksPerDay - 1

(* U: min(to_bound, repeat_until at 23:59:59), the one that is present, or
   the far-future ceiling *)
WindowHigh ==
    IF Truthy(to_date) /\ Truthy(obj.repeat_until)
    THEN Min(ToTick(to_date), UntilTick)
    ELSE IF Truthy(to_date) THEN ToTick(to_date)
    ELSE IF Truthy(obj.repeat_until) THEN UntilTick
    ELSE FutureDay * TicksPerDay

(* the repeat instants of the rule inside the window *)
WindowInstants ==
    {r \in StartTick(obj)..WindowHigh :
        /\ (r - StartTick(obj)) % RuleInterval(obj.repeat) = 0
        /\ r >= WindowLow}

YieldedStarts == {LocalTick(yielded[i].start) : i \in 1..Len(yielded)}

(* C11: a repeating record with duration d yields exactly the first N, in
   ascending order, of the rule's repeat instants r with
   max(from_bound, start) - d <= r <= U, each paired with the end r + d;
   so no occurrence starts before the record's start or after U, every
   occurrence ends at or after from_bound, and an occurrence that starts
   before from_bound and ends at or after it is among them. *)
C11_WindowOfInstants ==
    obj.repeat # "" =>
        /\ AscendingStarts(yielded)
        /\ YieldedStarts \subseteq WindowInstants
        /\ \A r \in WindowInstants :
              (\E x \in YieldedStarts : r < x) => r \in YieldedStarts
        /\ \A i \in 1..Len(yielded) :
              /\ Truthy(yielded[i].end)
              /\ LocalTick(yielded[i].end) = LocalTick(yielded[i].start) + DurationTicks
              /\ yielded[i].start.aware = obj.start.aware
              /\ LocalTick(yielded[i].start) >= StartTick(obj)
              /\ LocalTick(yielded[i].start) <= WindowHigh
              /\ Truthy(from_date) => LocalTick(yielded[i].end) >= FromTick(from_date)
        /\ gen_pc = "done" =>
              /\ Len(yielded) = Min(limit, Cardinality(WindowInstants))
              /\ limit >= Cardinality(WindowInstants) =>
                    \A r \in StartTick(obj)..WindowHigh :
                        (/\ (r - StartTick(obj)) % RuleInterval(obj.repeat) = 0
                         /\ Truthy(from_date)
                         /\ r < FromTick(from_date)
                         /\ r + DurationTicks >= FromTick(from_date))
                            => r \in YieldedStarts

(* C11 witness: a record with a positive duration was expanded from a
   from_bound after its start up to a to_bound, and the first occurrence it
   yielded starts before from_bound and ends at or after it *)
C11_Witness ==
    /\ obj.repeat # ""
    /\ gen_pc = "done"
    /\ Truthy(from_date) /\ Truthy(to_date)
    /\ DurationTicks > 0
    /\ FromTick(from_date) > StartTick(obj)
    /\ Len(yielded) >= 2
    /\ LocalTick(yielded[1].start) < FromTick(from_date)
    /\ LocalTick(yielded[1].end) >= FromTick(from_date)
    /\ LocalTick(yielded[Len(yielded)].start) <= ToTick(to_date)

====
